---- MODULE Spec2Model ----
(***************************************************************************)
(* ros-mcp-server: handle_call_tool (src/server.py) over the one shared    *)
(* roslibpy connection `ros`.                                              *)
(*                                                                         *)
(* Threads.  The handlers are coroutines of one asyncio event loop; the    *)
(* only await in handle_call_tool is asyncio.sleep (line 249), so a        *)
(* handler owns the loop thread from its start to its return except while  *)
(* it sleeps in a subscribe_topic window.  Every roslibpy call made        *)
(* without a callback (lines 173, 178, 191, 197, 201, 206, 216, 222, 229,  *)
(* 233) is a blocking call made on the loop thread, with no timeout.  The  *)
(* connection's receive side (started by ros.run(), line 261) is a         *)
(* separate thread: it resolves blocking calls and runs message_callback.  *)
(***************************************************************************)
EXTENDS Integers, Sequences, FiniteSets, TLC

\* ---------------------------------------------------------------- bounds
MaxCalls == 2
FullCalls == 1
SubCalls == 1
MaxMsgs == 6
FewMsgs == 1
MaxLosses == 1
MaxAttempts == 3

\* ------------------------------------------------------ program constants
DefaultTimeout == 5
RunTimeout == 10
LastN == 5

\* ------------------------------------------------------------ JSON values
\* A value is a tagged token sequence: a string's characters, a number's
\* digits.  Q is the double quote character, B the backslash.
Q == "dq"
B == "bs"
Digits == {"5"}
Str(s) == [t |-> "str", s |-> s]
Num(s) == [t |-> "num", s |-> s]
Null == [t |-> "null", s |-> <<>>]
Invalid == [t |-> "invalid", s |-> <<>>]

RECURSIVE Escape(_)
Escape(s) ==
    IF s = <<>> THEN <<>>
    ELSE IF Head(s) \in {Q, B} THEN <<B, Head(s)>> \o Escape(Tail(s))
    ELSE <<Head(s)>> \o Escape(Tail(s))

\* The body of a JSON string literal (after its opening quote) up to the
\* closing quote, unescaped; Invalid.s marker <<B>> when it never closes.
RECURSIVE Unescape(_)
Unescape(s) ==
    IF s = <<>> THEN [ok |-> FALSE, s |-> <<>>]
    ELSE IF Head(s) = Q THEN [ok |-> Tail(s) = <<>>, s |-> <<>>]
    ELSE IF Head(s) = B
         THEN IF Len(s) < 2 THEN [ok |-> FALSE, s |-> <<>>]
              ELSE LET r == Unescape(Tail(Tail(s)))
                   IN  [ok |-> r.ok, s |-> <<s[2]>> \o r.s]
    ELSE LET r == Unescape(Tail(s))
         IN  [ok |-> r.ok, s |-> <<Head(s)>> \o r.s]

\* json.dumps
Dumps(v) ==
    CASE v.t = "str" -> <<Q>> \o Escape(v.s) \o <<Q>>
      [] v.t = "num" -> v.s
      [] OTHER -> <<"null">>

\* json.loads; Invalid stands for the ValueError it raises
Loads(x) ==
    IF x = <<>> THEN Invalid
    ELSE IF x = <<"null">> THEN Null
    ELSE IF Head(x) = Q
         THEN LET r == Unescape(Tail(x))
              IN  IF r.ok THEN Str(r.s) ELSE Invalid
    ELSE IF \A i \in 1..Len(x) : x[i] \in Digits THEN Num(x)
    ELSE Invalid

\* str(value) inside an f-string: a string prints without quotes
Render(v) == IF v.t = "null" THEN <<"None">> ELSE v.s

\* Seconds of a timeout argument, or -1 when it is not a number
Seconds(v) ==
    IF v.t # "num" THEN -1
    ELSE IF v.s = <<"1">> THEN 1
    ELSE IF v.s = <<"2">> THEN 2
    ELSE IF v.s = <<"5">> THEN 5
    ELSE -1

\* ------------------------------------------------------------- the broker
\* What exists on the broker side.
Topics == {"/t"}
TopicType == "std_msgs/String"
Services == {"/s1", "/s2"}
ServiceType == "std_srvs/Trigger"
Nodes == {"/n"}
ParamNames == {"x"}

\* ----------------------------------------------------------------- inputs
\* The tools of handle_list_tools and one name that is none of them.
ToolNames ==
    {"list_topics", "get_topic_info", "publish_message", "list_nodes",
     "get_node_info", "list_services", "get_service_info", "call_service",
     "get_param", "set_param", "list_params", "subscribe_topic"}
UnknownName == "reboot_robot"

\* The arguments a caller may pass, per argument name (every value is a
\* JSON value); a caller may leave any of them out.
ArgChoices(name) ==
    CASE name = "get_topic_info" ->
           [topic_name |-> {Str(<<"/t">>), Str(<<"/ghost">>)}]
      [] name = "publish_message" ->
           [topic_name |-> {Str(<<"/t">>)},
            message_type |-> {Str(<<TopicType>>)},
            message_data |-> {Str(<<"hello">>)}]
      [] name = "get_node_info" -> [node_name |-> {Str(<<"/n">>)}]
      [] name = "get_service_info" -> [service_name |-> {Str(<<"/s1">>)}]
      [] name = "call_service" ->
           [service_name |-> {Str(<<"/s1">>), Str(<<"/s2">>), Str(<<"/no_srv">>)},
            service_type |-> {Str(<<ServiceType>>)},
            service_args |-> {Str(<<"go">>)}]
      [] name = "get_param" -> [param_name |-> {Str(<<"x">>)}]
      [] name = "set_param" ->
           [param_name |-> {Str(<<"x">>)},
            param_value |-> {Str(<<"5">>), Num(<<"5">>), Str(<<Q, "5", Q>>)}]
      [] name = "subscribe_topic" ->
           [topic_name |-> {Str(<<"/t">>), Str(<<"/ghost">>)},
            timeout |-> {Num(<<"1">>), Str(<<"soon">>)}]
      [] OTHER -> <<>>

ArgValues(ch) == UNION {ch[k] : k \in DOMAIN ch}

ArgumentSets(name) ==
    LET ch == ArgChoices(name)
    IN  UNION {{f \in [D -> ArgValues(ch)] : \A k \in D : f[k] \in ch[k]} :
               D \in SUBSET (DOMAIN ch)}

Requests(names) ==
    UNION {{[name |-> n, arguments |-> a] : a \in ArgumentSets(n)} : n \in names}

NoRequest == [name |-> "", arguments |-> <<>>]

\* inputSchema "required" (lines 24-164), in the order the handler reads them
Required(name) ==
    CASE name = "get_topic_info" -> <<"topic_name">>
      [] name = "publish_message" -> <<"topic_name", "message_type", "message_data">>
      [] name = "get_node_info" -> <<"node_name">>
      [] name = "get_service_info" -> <<"service_name">>
      [] name = "call_service" -> <<"service_name", "service_type", "service_args">>
      [] name = "get_param" -> <<"param_name">>
      [] name = "set_param" -> <<"param_name", "param_value">>
      [] name = "subscribe_topic" -> <<"topic_name">>
      [] OTHER -> <<>>

\* ------------------------------------------------------------------ state
Calls == 1..MaxCalls

VARIABLES
    pc,         \* per call: idle, ready (task created), blocked (inside a
                \* blocking roslibpy call), sleeping (line 249), readout
                \* (lines 250-255), listing (inside line 253), done,
                \* cancelled (left by CancelledError)
    req,        \* per call: the (name, arguments) handed to handle_call_tool
    result,     \* per call: what handle_call_tool returned
    rid,        \* per call: the roslibpy id it waits on or subscribed with
    finished,   \* the calls in the order handle_call_tool returned
    idCounter,  \* ros.id_counter
    conn,       \* the socket of `ros` (line 11): connecting (inside ros.run(),
                \* line 261), up, down, or gave_up (ros.run() raised)
    losses,     \* connection losses so far
    outbox,     \* envelopes handed over while down, sent when ready again
    sent,       \* every envelope handed to the connection, in order
    requests,   \* call_service envelopes the broker holds, not yet served
    responses,  \* service_response frames on their way to the client
    attempts,   \* connection attempts that failed while ros.run() waited
    waited,     \* seconds ros.run() has waited for the connection
    params,     \* the broker's parameter store
    brokerSubs, \* the subscriptions the broker holds for this client
    published,  \* publish frames the broker has sent to this client
    arrived,    \* ids of the call_service envelopes the broker took off the
                \* socket, in order
    served,     \* ids of the requests the broker executed, in order
    listeners,  \* callbacks registered on `ros`, by event (topic) name
    messages,   \* per call: the list `messages` of line 240
    heard,      \* per call: the frames of its topic that reached the client
                \* between its subscribe (246) and its unsubscribe (250)
    elapsed,    \* per call: seconds slept so far in asyncio.sleep
    dispatch,   \* calls of message_callback the receive thread has begun
                \* and not yet run to their append (line 244)
    counted     \* per call: len(messages) as read at line 253

callVars == <<pc, req, result, rid, finished>>
linkVars == <<idCounter, conn, losses, outbox, sent, requests, responses,
              attempts, waited>>
brokerVars == <<params, brokerSubs, published, arrived, served>>
subVars == <<listeners, messages, heard, elapsed, dispatch, counted>>
vars == <<callVars, linkVars, brokerVars, subVars>>

\* --------------------------------------------------------- result texts
Text(shape, op, subject, detail, count, msgs) ==
    [shape |-> shape, op |-> op, subject |-> subject, detail |-> detail,
     count |-> count, msgs |-> msgs]

NoResult == Text("pending", "", <<>>, <<>>, 0, <<>>)

\* The return statements of lines 174-255: one TextContent
Success(op, subject, detail) == Text("success", op, subject, detail, 0, <<>>)

\* A handler without the try of line 171: the exception leaves the handler
ExceptHandler_Uncaught(name, e) == Text("raised", "", <<>>, e, 0, <<>>)

\* lines 257-258: f"Error executing {name}: {str(e)}"
ExceptHandler(name, e) == Text("error", name, <<>>, e, 0, <<>>)

\* str(KeyError(k))
KeyError(k) == <<"'", k, "'">>
TypeError == <<"'<=' not supported between instances of 'str' and 'int'">>
ValueError == <<"Expecting value">>

\* The first required argument the handler reads that is absent, or ""
FirstMissing(r) ==
    LET need == Required(r.name)
        gone == {i \in 1..Len(need) : need[i] \notin DOMAIN r.arguments}
    IN  IF gone = {} THEN ""
        ELSE need[CHOOSE i \in gone : \A j \in gone : i <= j]

\* ------------------------------------------------------------ connection
Envelope(op, id, target, name, data, c) ==
    [op |-> op, id |-> id, target |-> target, name |-> name, data |-> data,
     by |-> c]

\* The broker taking envelopes off the socket in order
RECURSIVE Accept(_, _)
Accept(es, b) ==
    IF es = <<>> THEN b
    ELSE LET e == Head(es)
         IN  Accept(Tail(es),
                CASE e.op = "call_service" ->
                       [b EXCEPT !.requests = @ \cup {e},
                                 !.arrived = Append(@, e.id)]
                  [] e.op = "subscribe" ->
                       [b EXCEPT !.subs = @ \cup {[id |-> e.id, topic |-> e.target]}]
                  [] e.op = "unsubscribe" ->
                       [b EXCEPT !.subs = {s \in @ : s.id # e.id}]
                  [] OTHER -> b)

\* ros.send_on_ready / call_async_service: written now when the socket is
\* up, otherwise kept until the connection is ready again
Transmit(es) ==
    /\ sent' = sent \o es
    /\ IF conn = "up"
       THEN LET b == Accept(es, [requests |-> requests, subs |-> brokerSubs,
                                 arrived |-> arrived])
            IN  /\ requests' = b.requests
                /\ brokerSubs' = b.subs
                /\ arrived' = b.arrived
                /\ outbox' = outbox
       ELSE /\ outbox' = outbox \o es
            /\ UNCHANGED <<requests, brokerSubs, arrived>>

\* the event loop thread is free to start or resume a coroutine
LoopFree == \A d \in Calls : pc[d] \notin {"blocked", "readout", "listing"}

Runnable(c, name) ==
    /\ pc[c] = "ready"
    /\ req[c].name = name
    /\ LoopFree

Finish(c, r) ==
    /\ pc' = [pc EXCEPT ![c] = "done"]
    /\ result' = [result EXCEPT ![c] = r]
    /\ finished' = Append(finished, c)

\* handle_call_tool raising on a missing key before anything else happens
FailMissing(c) ==
    /\ Finish(c, ExceptHandler(req[c].name, KeyError(FirstMissing(req[c]))))
    /\ UNCHANGED <<req, rid, linkVars, brokerVars, subVars>>

\* A roslibpy call without a callback and without a timeout: the request
\* goes out under a fresh id and the loop thread blocks until the
\* service_response carrying that id comes in
CallSync(c, target, name, data) ==
    /\ idCounter' = idCounter + 1
    /\ rid' = [rid EXCEPT ![c] = idCounter + 1]
    /\ pc' = [pc EXCEPT ![c] = "blocked"]
    /\ Transmit(<<Envelope("call_service", idCounter + 1, target, name, data, c)>>)
    /\ UNCHANGED <<req, result, finished, conn, losses, attempts, waited,
                   responses, params, served, published, subVars>>

\* ------------------------------------------------------------- dispatcher
\* The MCP server (started at line 262, after ros.run() has returned)
\* creates one task per request; tasks are numbered in the order they are
\* created
Arrive(c, menu, limit) ==
    /\ c <= limit
    /\ conn \in {"up", "down"}
    /\ pc[c] = "idle"
    /\ \A d \in Calls : d < c => pc[d] # "idle"
    /\ \E r \in menu : req' = [req EXCEPT ![c] = r]
    /\ pc' = [pc EXCEPT ![c] = "ready"]
    /\ UNCHANGED <<result, rid, finished, linkVars, brokerVars, subVars>>

\* --------------------------------------------------------------- handlers
Arg(c, k) == req[c].arguments[k]
HasAll(c) == FirstMissing(req[c]) = ""

\* lines 172-174
HandleListTopics(c) ==
    /\ Runnable(c, "list_topics")
    /\ CallSync(c, "/rosapi/topics", <<>>, <<>>)

\* lines 176-179
HandleGetTopicInfo(c) ==
    /\ Runnable(c, "get_topic_info")
    /\ IF HasAll(c)
       THEN CallSync(c, "/rosapi/topic_type", Render(Arg(c, "topic_name")), <<>>)
       ELSE FailMissing(c)

\* publish_message reading message_data only after the Topic was advertised
HandlePublishMessage_LateCheck(c) ==
    /\ Runnable(c, "publish_message")
    /\ IF {"topic_name", "message_type"} \subseteq DOMAIN req[c].arguments
       THEN LET topic == Render(Arg(c, "topic_name"))
                adv == Envelope("advertise", idCounter + 1, topic[1],
                                Render(Arg(c, "message_type")), <<>>, c)
            IN  /\ idCounter' = idCounter + 2
                /\ IF HasAll(c)
                   THEN /\ Transmit(<<adv, Envelope("publish", idCounter + 2,
                                        topic[1], <<>>,
                                        Render(Arg(c, "message_data")), c)>>)
                        /\ Finish(c, Success("publish_message", topic, <<>>))
                   ELSE /\ Transmit(<<adv>>)
                        /\ Finish(c, ExceptHandler("publish_message",
                                                   KeyError("message_data")))
                /\ UNCHANGED <<req, rid, conn, losses, attempts, waited,
                               responses, params, served, published, subVars>>
       ELSE FailMissing(c)

\* publish_message waiting for the broker to answer its publish
HandlePublishMessage_AwaitAck(c) ==
    /\ Runnable(c, "publish_message")
    /\ IF HasAll(c)
       THEN CallSync(c, Render(Arg(c, "topic_name"))[1], <<>>,
                     Render(Arg(c, "message_data")))
       ELSE FailMissing(c)

\* lines 181-188: a new Topic advertises itself on its first publish, then
\* hands the publish envelope over; nothing is awaited
HandlePublishMessage(c) ==
    /\ Runnable(c, "publish_message")
    /\ IF HasAll(c)
       THEN LET topic == Render(Arg(c, "topic_name"))
            IN  /\ idCounter' = idCounter + 2
                /\ Transmit(<<Envelope("advertise", idCounter + 1, topic[1],
                                       Render(Arg(c, "message_type")), <<>>, c),
                              Envelope("publish", idCounter + 2, topic[1], <<>>,
                                       Render(Arg(c, "message_data")), c)>>)
                /\ Finish(c, Success("publish_message", topic, <<>>))
                /\ UNCHANGED <<req, rid, conn, losses, attempts, waited,
                               responses, params, served, published, subVars>>
       ELSE FailMissing(c)

\* lines 190-192
HandleListNodes(c) ==
    /\ Runnable(c, "list_nodes")
    /\ CallSync(c, "/rosapi/nodes", <<>>, <<>>)

\* lines 194-198
HandleGetNodeInfo(c) ==
    /\ Runnable(c, "get_node_info")
    /\ IF HasAll(c)
       THEN CallSync(c, "/rosapi/node_details", Render(Arg(c, "node_name")), <<>>)
       ELSE FailMissing(c)

\* lines 200-202
HandleListServices(c) ==
    /\ Runnable(c, "list_services")
    /\ CallSync(c, "/rosapi/services", <<>>, <<>>)

\* lines 204-207
HandleGetServiceInfo(c) ==
    /\ Runnable(c, "get_service_info")
    /\ IF HasAll(c)
       THEN CallSync(c, "/rosapi/service_type", Render(Arg(c, "service_name")), <<>>)
       ELSE FailMissing(c)

\* the service name kept in one place shared by all handlers: the first
\* task's name is used by every call
ServiceTarget_Shared(c) ==
    IF "service_name" \in DOMAIN req[1].arguments
    THEN Render(req[1].arguments["service_name"])[1]
    ELSE Render(Arg(c, "service_name"))[1]

\* lines 210-216: the envelope names the service of the arguments
ServiceTarget(c) == Render(Arg(c, "service_name"))[1]

HandleCallService(c) ==
    /\ Runnable(c, "call_service")
    /\ IF HasAll(c)
       THEN CallSync(c, ServiceTarget(c), <<>>, Render(Arg(c, "service_args")))
       ELSE FailMissing(c)

\* a get_param that writes the parameter it asks for
HandleGetParam_Writes(c) ==
    /\ Runnable(c, "get_param")
    /\ IF HasAll(c)
       THEN CallSync(c, "/rosapi/set_param", Render(Arg(c, "param_name")),
                     Dumps(Null))
       ELSE FailMissing(c)

\* lines 219-222
HandleGetParam(c) ==
    /\ Runnable(c, "get_param")
    /\ IF HasAll(c)
       THEN CallSync(c, "/rosapi/get_param", Render(Arg(c, "param_name")), <<>>)
       ELSE FailMissing(c)

\* the value sent as it prints, not as JSON text
SetParamValue_Raw(v) == Render(v)

\* line 229, Param.set: the value travels as JSON text
SetParamValue(v) == Dumps(v)

\* lines 225-229
HandleSetParam(c) ==
    /\ Runnable(c, "set_param")
    /\ IF HasAll(c)
       THEN CallSync(c, "/rosapi/set_param", Render(Arg(c, "param_name")),
                     SetParamValue(Arg(c, "param_value")))
       ELSE FailMissing(c)

\* lines 232-234
HandleListParams(c) ==
    /\ Runnable(c, "list_params")
    /\ CallSync(c, "/rosapi/get_param_names", <<>>, <<>>)

\* No branch of lines 172-236 matches: the function falls off its end and
\* returns None
HandleUnknown(c) ==
    /\ pc[c] = "ready"
    /\ req[c].name \notin ToolNames
    /\ LoopFree
    /\ Finish(c, Text("none", "", <<>>, <<>>, 0, <<>>))
    /\ UNCHANGED <<req, rid, linkVars, brokerVars, subVars>>

\* line 222, Param.get: the response's value is JSON text
GetParamValue(data) == Loads(data)

\* a failure reported by the broker taken for a response like any other
OnReturn_FailureAsResult(r, f) == Success(r.name, <<>>, f.data)

\* What the handler returns once its blocking call has come back with the
\* response frame f: a failure reported by the broker is raised by roslibpy
\* and caught at line 257
OnReturn(r, f) ==
    IF ~f.ok THEN ExceptHandler(r.name, f.data)
    ELSE CASE r.name \in {"list_topics", "list_nodes", "list_services",
                          "list_params"} ->
                Success(r.name, <<>>, f.data)
           [] r.name = "get_topic_info" ->
                Success(r.name, Render(r.arguments["topic_name"]), f.data)
           [] r.name = "get_node_info" ->
                Success(r.name, Render(r.arguments["node_name"]), f.data)
           [] r.name = "get_service_info" ->
                Success(r.name, Render(r.arguments["service_name"]), f.data)
           [] r.name = "call_service" ->
                Success(r.name, <<>>, f.data)
           [] r.name = "get_param" ->
                IF GetParamValue(f.data) = Invalid
                THEN ExceptHandler(r.name, ValueError)
                ELSE Success(r.name, Render(r.arguments["param_name"]),
                             Render(GetParamValue(f.data)))
           [] r.name = "set_param" ->
                Success(r.name, Render(r.arguments["param_name"]),
                        Render(r.arguments["param_value"]))
           [] OTHER -> NoResult

\* The receive thread takes a service_response off the socket: the call
\* registered under its id returns; a frame nobody waits for is dropped
ReactorReceive(f) ==
    /\ f \in responses
    /\ responses' = responses \ {f}
    /\ IF \E c \in Calls : pc[c] = "blocked" /\ rid[c] = f.id
       THEN LET c == CHOOSE c \in Calls : pc[c] = "blocked" /\ rid[c] = f.id
            IN  Finish(c, OnReturn(req[c], f))
       ELSE UNCHANGED <<pc, result, finished>>
    /\ UNCHANGED <<req, rid, idCounter, conn, losses, attempts, waited,
                   outbox, sent, requests, brokerVars, subVars>>

\* ---------------------------------------------------------- subscribe_topic
\* line 238: arguments.get("timeout", 5.0), in seconds (-1: not a number)
Window(r) ==
    IF "timeout" \in DOMAIN r.arguments THEN Seconds(r.arguments["timeout"])
    ELSE DefaultTimeout

TopicOf(r) == Render(r.arguments["topic_name"])[1]

Listener(c) == [topic |-> TopicOf(req[c]), cb |-> c]

\* lines 236-249: the listener's callback is registered on `ros` under the
\* topic's name and the subscribe envelope handed over; then the coroutine
\* sleeps.  asyncio.sleep raises TypeError on a delay that is no number,
\* after the subscription was made.
HandleSubscribeTopic(c) ==
    /\ Runnable(c, "subscribe_topic")
    /\ IF HasAll(c)
       THEN /\ idCounter' = idCounter + 1
            /\ rid' = [rid EXCEPT ![c] = idCounter + 1]
            /\ listeners' = listeners \cup {Listener(c)}
            /\ Transmit(<<Envelope("subscribe", idCounter + 1, TopicOf(req[c]),
                                   <<>>, <<>>, c)>>)
            /\ IF Window(req[c]) < 0
               THEN Finish(c, ExceptHandler("subscribe_topic", TypeError))
               ELSE /\ pc' = [pc EXCEPT ![c] = "sleeping"]
                    /\ UNCHANGED <<result, finished>>
            /\ UNCHANGED <<req, conn, losses, attempts, waited, responses,
                           params, served, published, messages, heard,
                           elapsed, dispatch, counted>>
       ELSE FailMissing(c)

\* time passes for every coroutine inside asyncio.sleep
Tick ==
    /\ \E c \in Calls : pc[c] = "sleeping" /\ elapsed[c] < Window(req[c])
    /\ elapsed' = [c \in Calls |->
                     IF pc[c] = "sleeping" /\ elapsed[c] < Window(req[c])
                     THEN elapsed[c] + 1 ELSE elapsed[c]]
    /\ UNCHANGED <<callVars, linkVars, brokerVars, listeners, messages, heard,
                   dispatch, counted>>

\* a sleep that ends a second early
SleepOver_Early(c) == elapsed[c] + 1 >= Window(req[c])

\* asyncio.sleep(timeout) is over once `timeout` seconds have passed
SleepOver(c) == elapsed[c] >= Window(req[c])

\* line 250, Topic.unsubscribe: ros.off(<topic name>) takes every callback
\* registered under that name off the shared connection
Off(ls, topic) == {l \in ls : l.topic # topic}

\* lines 249-250: the sleep is over, the loop resumes the coroutine, which
\* unsubscribes
Wake(c) ==
    /\ pc[c] = "sleeping"
    /\ SleepOver(c)
    /\ LoopFree
    /\ listeners' = Off(listeners, TopicOf(req[c]))
    /\ Transmit(<<Envelope("unsubscribe", rid[c], TopicOf(req[c]), <<>>, <<>>, c)>>)
    /\ pc' = [pc EXCEPT ![c] = "readout"]
    /\ UNCHANGED <<req, result, rid, finished, idCounter, conn, losses,
                   attempts, waited, responses, params, served, published,
                   messages, heard, elapsed, dispatch, counted>>

\* The request is cancelled while the coroutine sleeps: CancelledError is
\* raised at line 249.  It is no Exception, so line 257 does not catch it:
\* the coroutine is left without line 250 and without a result.
Cancel(c) ==
    /\ pc[c] = "sleeping"
    /\ LoopFree
    /\ pc' = [pc EXCEPT ![c] = "cancelled"]
    /\ UNCHANGED <<req, result, rid, finished, linkVars, brokerVars, subVars>>

\* messages[:5]
LastOf_First(s, n) == SubSeq(s, 1, IF Len(s) > n THEN n ELSE Len(s))

\* messages[-5:]
LastOf(s, n) == SubSeq(s, IF Len(s) > n THEN Len(s) - n + 1 ELSE 1, Len(s))

NoMessages == <<"No messages received">>

\* lines 252-255
ReadOutText(r, ms) ==
    IF ms # <<>>
    THEN Text("success", r.name, <<TopicOf(r)>>, <<>>, Len(ms), LastOf(ms, LastN))
    ELSE Text("success", r.name, <<TopicOf(r)>>, NoMessages, 0, <<>>)

ReadOut(c) ==
    /\ pc[c] = "readout"
    /\ Finish(c, ReadOutText(req[c], messages[c]))
    /\ UNCHANGED <<req, rid, linkVars, brokerVars, subVars>>

\* Lines 252-255 read the list three times (the test, len, the slice) on
\* the loop thread, while message_callback appends on the receive thread.
\* ReadOut above is the three reads with no append between them; the two
\* steps below are the same reads with the other thread free to run
\* between len(messages) and messages[-5:].
CountMessages(c) ==
    /\ pc[c] = "readout"
    /\ IF messages[c] = <<>>
       THEN /\ Finish(c, ReadOutText(req[c], <<>>))
            /\ UNCHANGED counted
       ELSE /\ pc' = [pc EXCEPT ![c] = "listing"]
            /\ counted' = [counted EXCEPT ![c] = Len(messages[c])]
            /\ UNCHANGED <<result, finished>>
    /\ UNCHANGED <<req, rid, linkVars, brokerVars, listeners, messages, heard,
                   elapsed, dispatch>>

ListMessages(c) ==
    /\ pc[c] = "listing"
    /\ Finish(c, [ReadOutText(req[c], messages[c]) EXCEPT !.count = counted[c]])
    /\ UNCHANGED <<req, rid, linkVars, brokerVars, subVars>>

\* ------------------------------------------------------------- the broker
\* rosapi and the services behind the bridge
Serve(e) ==
    CASE e.target = "/rosapi/topics" -> [ok |-> TRUE, data |-> <<"/t">>]
      [] e.target = "/rosapi/topic_type" ->
           [ok |-> TRUE,
            data |-> IF e.name[1] \in Topics THEN <<TopicType>> ELSE <<>>]
      [] e.target = "/rosapi/nodes" -> [ok |-> TRUE, data |-> <<"/n">>]
      [] e.target = "/rosapi/node_details" ->
           [ok |-> TRUE, data |-> <<"publishing", "/t">>]
      [] e.target = "/rosapi/services" -> [ok |-> TRUE, data |-> <<"/s1", "/s2">>]
      [] e.target = "/rosapi/service_type" ->
           [ok |-> TRUE,
            data |-> IF e.name[1] \in Services THEN <<ServiceType>> ELSE <<>>]
      [] e.target = "/rosapi/get_param" ->
           [ok |-> TRUE, data |-> Dumps(params[e.name[1]])]
      [] e.target = "/rosapi/set_param" ->
           IF Loads(e.data) = Invalid
           THEN [ok |-> FALSE, data |-> <<"value must be a JSON-formatted string">>]
           ELSE [ok |-> TRUE, data |-> <<>>]
      [] e.target = "/rosapi/get_param_names" ->
           [ok |-> TRUE,
            data |-> IF params["x"] = Null THEN <<>> ELSE <<"x">>]
      [] e.target \in Services ->
           [ok |-> TRUE, data |-> <<"response of", e.target>> \o e.data]
      [] OTHER ->
           [ok |-> FALSE, data |-> <<"Service", e.target, "does not exist">>]

\* The broker serves one request and puts the service_response on the
\* socket; it may instead report the call as failed
BrokerServe(e, fails) ==
    /\ e \in requests
    /\ conn = "up"
    /\ requests' = requests \ {e}
    /\ served' = Append(served, e.id)
    /\ LET r == IF fails THEN [ok |-> FALSE, data |-> <<"service call failed">>]
                ELSE Serve(e)
       IN  /\ responses' = responses \cup {[id |-> e.id, ok |-> r.ok, data |-> r.data]}
           /\ params' = IF r.ok /\ e.target = "/rosapi/set_param"
                        THEN [params EXCEPT ![e.name[1]] = Loads(e.data)]
                        ELSE params
    /\ UNCHANGED <<callVars, idCounter, conn, losses, attempts, waited,
                   outbox, sent, brokerSubs, published, arrived, subVars>>

\* A message is published on topic t: the broker sends this client one
\* publish frame if it holds a subscription of the client to t, and the
\* receive thread calls every callback registered under t
BrokerPublish(t, limit) ==
    /\ conn = "up"
    /\ published < limit
    /\ \E s \in brokerSubs : s.topic = t
    /\ published' = published + 1
    /\ messages' = [c \in Calls |->
                      IF [topic |-> t, cb |-> c] \in listeners
                      THEN Append(messages[c], published + 1) ELSE messages[c]]
    /\ heard' = [c \in Calls |->
                   IF pc[c] = "sleeping" /\ TopicOf(req[c]) = t
                   THEN Append(heard[c], published + 1) ELSE heard[c]]
    /\ UNCHANGED <<callVars, linkVars, params, served, brokerSubs, arrived,
                   listeners, elapsed, dispatch, counted>>

\* The same in the receive thread's own steps.  A publish frame comes in:
\* the thread takes the callbacks registered under the topic at that moment
\* and will call them one after the other; it takes the next frame when it
\* is through with them.
ReceivePublish(t, limit) ==
    /\ conn = "up"
    /\ published < limit
    /\ \E s \in brokerSubs : s.topic = t
    /\ dispatch = {}
    /\ published' = published + 1
    /\ dispatch' = {[cb |-> l.cb, msg |-> published + 1] :
                       l \in {k \in listeners : k.topic = t}}
    /\ heard' = [c \in Calls |->
                   IF pc[c] = "sleeping" /\ TopicOf(req[c]) = t
                   THEN Append(heard[c], published + 1) ELSE heard[c]]
    /\ UNCHANGED <<callVars, linkVars, params, served, brokerSubs, arrived,
                   listeners, messages, elapsed, counted>>

\* lines 243-244: the receive thread runs one of the callbacks it took,
\* whether or not the callback is still registered by now
MessageCallback(d) ==
    /\ d \in dispatch
    /\ \A o \in dispatch : d.cb <= o.cb
    /\ dispatch' = dispatch \ {d}
    /\ messages' = [messages EXCEPT ![d.cb] = Append(@, d.msg)]
    /\ UNCHANGED <<callVars, linkVars, brokerVars, listeners, heard, elapsed,
                   counted>>

\* The socket drops: what was on its way in either direction is gone and the
\* broker forgets the client's subscriptions.  Nothing is raised into a
\* blocking call that waits for a response.
ConnectionLost ==
    /\ conn = "up"
    /\ losses < MaxLosses
    /\ conn' = "down"
    /\ losses' = losses + 1
    /\ requests' = {}
    /\ responses' = {}
    /\ brokerSubs' = {}
    /\ UNCHANGED <<callVars, idCounter, outbox, sent, attempts, waited, params,
                   served, published, arrived, subVars>>

\* The subscribe envelopes the still subscribed Topics send again when the
\* connection is back (those not waiting in the outbox already)
RECURSIVE Resubscribe(_)
Resubscribe(cs) ==
    IF cs = {} THEN <<>>
    ELSE LET c == CHOOSE c \in cs : \A d \in cs : c <= d
         IN  <<Envelope("subscribe", rid[c], TopicOf(req[c]), <<>>, <<>>, c)>>
             \o Resubscribe(cs \ {c})

\* the calls among cs whose envelope is not waiting in the outbox
Handed(cs) ==
    {c \in cs : \A i \in 1..Len(outbox) : outbox[i].id # rid[c]}

\* the calls inside a blocking roslibpy call
Blocked == {c \in Calls : pc[c] = "blocked"}

\* the calls whose Topic is subscribed: line 246 was run and line 250 was not
Subscribing ==
    {c \in Calls :
        /\ req[c].name = "subscribe_topic" /\ rid[c] # 0
        /\ \/ pc[c] \in {"sleeping", "cancelled"}
           \/ pc[c] = "done" /\ result[c].shape = "error"}

\* a client that also writes the request of every call still waiting for
\* its response again
SentAgain_Retry ==
    Resubscribe(Handed(Subscribing))
    \o SelectSeq(sent, LAMBDA e : /\ e.op = "call_service"
                                  /\ \E c \in Handed(Blocked) : rid[c] = e.id)

\* What roslibpy writes again by itself once the connection is back: the
\* subscribe of every Topic still subscribed.  The request of a blocking
\* call (lines 173-233) was handed over once and is not written again.
SentAgain == Resubscribe(Handed(Subscribing))

\* roslibpy reconnects by itself; the envelopes kept meanwhile go out
Reconnect ==
    /\ conn = "down"
    /\ conn' = "up"
    /\ LET again == SentAgain
           b == Accept(outbox \o again, [requests |-> {}, subs |-> {},
                                         arrived |-> arrived])
       IN  /\ requests' = b.requests
           /\ brokerSubs' = b.subs
           /\ arrived' = b.arrived
           /\ sent' = sent \o again
    /\ outbox' = <<>>
    /\ UNCHANGED <<callVars, idCounter, losses, attempts, waited, responses,
                   params, served, published, subVars>>

\* ------------------------------------------------------------------ start
\* main, line 261: ros.run() starts the connection's thread and waits for
\* the connection to be ready, at most roslibpy's connection timeout
\* (RunTimeout seconds; line 261 passes none of its own).  Meanwhile the
\* connection makes its attempts; line 11 configures no limit for them.
AttemptFails ==
    /\ conn = "connecting"
    /\ attempts < MaxAttempts
    /\ attempts' = attempts + 1
    /\ UNCHANGED <<callVars, idCounter, conn, losses, outbox, sent, requests,
                   responses, waited, brokerVars, subVars>>

\* a ros.run() that waits without a timeout
RunTimedOut_Never == FALSE

\* the wait of ros.run() is over
RunTimedOut == waited >= RunTimeout

\* a second passes while ros.run() waits
StartTick ==
    /\ conn = "connecting"
    /\ ~RunTimedOut
    /\ waited' = waited + 1
    /\ UNCHANGED <<callVars, idCounter, conn, losses, outbox, sent, requests,
                   responses, attempts, brokerVars, subVars>>

\* an attempt succeeds: ros.run() returns and main goes on to line 262
Connected ==
    /\ conn = "connecting"
    /\ ~RunTimedOut
    /\ conn' = "up"
    /\ UNCHANGED <<callVars, idCounter, losses, outbox, sent, requests,
                   responses, attempts, waited, brokerVars, subVars>>

\* the wait is over with no connection: ros.run() raises 'Failed to connect
\* to ROS', which main does not catch; asyncio.run (line 277) ends with it
\* and the process with its traceback, the connection's thread included
RunFails ==
    /\ conn = "connecting"
    /\ RunTimedOut
    /\ conn' = "gave_up"
    /\ UNCHANGED <<callVars, idCounter, losses, outbox, sent, requests,
                   responses, attempts, waited, brokerVars, subVars>>

\* ---------------------------------------------------------- specification
\* nothing was called, sent or received yet
Fresh ==
    /\ pc = [c \in Calls |-> "idle"]
    /\ req = [c \in Calls |-> NoRequest]
    /\ result = [c \in Calls |-> NoResult]
    /\ rid = [c \in Calls |-> 0]
    /\ finished = <<>>
    /\ idCounter = 0
    /\ losses = 0
    /\ attempts = 0
    /\ waited = 0
    /\ outbox = <<>>
    /\ sent = <<>>
    /\ requests = {}
    /\ responses = {}
    /\ brokerSubs = {}
    /\ published = 0
    /\ arrived = <<>>
    /\ served = <<>>
    /\ listeners = {}
    /\ messages = [c \in Calls |-> <<>>]
    /\ heard = [c \in Calls |-> <<>>]
    /\ elapsed = [c \in Calls |-> 0]
    /\ dispatch = {}
    /\ counted = [c \in Calls |-> 0]

\* the parameters the broker holds when the program starts
NoParams == [p \in ParamNames |-> Null]

\* main has connected (line 261) and serves
Init == Fresh /\ conn = "up" /\ params = NoParams

AllRequests == Requests(ToolNames \cup {UnknownName})

\* Every operation: FullCalls calls, FewMsgs messages
Next ==
    \/ \E c \in Calls : Arrive(c, AllRequests, FullCalls)
    \/ \E c \in Calls : HandleListTopics(c)
    \/ \E c \in Calls : HandleGetTopicInfo(c)
    \/ \E c \in Calls : HandlePublishMessage(c)
    \/ \E c \in Calls : HandleListNodes(c)
    \/ \E c \in Calls : HandleGetNodeInfo(c)
    \/ \E c \in Calls : HandleListServices(c)
    \/ \E c \in Calls : HandleGetServiceInfo(c)
    \/ \E c \in Calls : HandleCallService(c)
    \/ \E c \in Calls : HandleGetParam(c)
    \/ \E c \in Calls : HandleSetParam(c)
    \/ \E c \in Calls : HandleListParams(c)
    \/ \E c \in Calls : HandleSubscribeTopic(c)
    \/ \E c \in Calls : HandleUnknown(c)
    \/ \E c \in Calls : Wake(c)
    \/ \E c \in Calls : ReadOut(c)
    \/ \E c \in Calls : Cancel(c)
    \/ \E t \in Topics : BrokerPublish(t, FewMsgs)
    \/ Tick
    \/ \E f \in responses : ReactorReceive(f)
    \/ \E e \in requests, fails \in BOOLEAN : BrokerServe(e, fails)
    \/ ConnectionLost
    \/ Reconnect

Spec == Init /\ [][Next]_vars

\* The service and parameter operations with their arguments complete,
\* MaxCalls calls
SvcRequests ==
    {r \in Requests({"call_service", "get_param", "set_param"}) :
        FirstMissing(r) = ""}

NextSvc ==
    \/ \E c \in Calls : Arrive(c, SvcRequests, MaxCalls)
    \/ \E c \in Calls : HandleCallService(c)
    \/ \E c \in Calls : HandleGetParam(c)
    \/ \E c \in Calls : HandleSetParam(c)
    \/ \E f \in responses : ReactorReceive(f)
    \/ \E e \in requests, fails \in BOOLEAN : BrokerServe(e, fails)
    \/ ConnectionLost
    \/ Reconnect

SpecSvc == Init /\ [][NextSvc]_vars

\* The same under the scheduling the threads give: the broker, the receive
\* thread, the event loop and the reconnecting socket each take their step
\* when they can
FairSvc == SpecSvc /\ WF_vars(NextSvc)

\* subscribe_topic calls only, none of them cancelled: SubCalls calls,
\* MaxMsgs messages
SubRequests == Requests({"subscribe_topic"})

NextSub ==
    \/ \E c \in Calls : Arrive(c, SubRequests, SubCalls)
    \/ \E c \in Calls : HandleSubscribeTopic(c)
    \/ \E c \in Calls : Wake(c)
    \/ \E c \in Calls : ReadOut(c)
    \/ \E t \in Topics : BrokerPublish(t, MaxMsgs)
    \/ Tick
    \/ ConnectionLost
    \/ Reconnect

SpecSub == Init /\ [][NextSub]_vars

\* Overlapping subscribe_topic calls, which may be cancelled: one call more
NextPair ==
    \/ \E c \in Calls : Arrive(c, SubRequests, SubCalls + 1)
    \/ \E c \in Calls : HandleSubscribeTopic(c)
    \/ \E c \in Calls : Wake(c)
    \/ \E c \in Calls : ReadOut(c)
    \/ \E c \in Calls : Cancel(c)
    \/ \E t \in Topics : BrokerPublish(t, MaxMsgs)
    \/ Tick
    \/ ConnectionLost
    \/ Reconnect

SpecPair == Init /\ [][NextPair]_vars

\* subscribe_topic calls on a topic with few messages
NextWin ==
    \/ \E c \in Calls : Arrive(c, SubRequests, SubCalls)
    \/ \E c \in Calls : HandleSubscribeTopic(c)
    \/ \E c \in Calls : Wake(c)
    \/ \E c \in Calls : ReadOut(c)
    \/ \E t \in Topics : BrokerPublish(t, FewMsgs)
    \/ Tick
    \/ ConnectionLost
    \/ Reconnect

\* The event loop resumes a coroutine whose sleep is over, and time passes
FairWin ==
    /\ Init /\ [][NextWin]_vars
    /\ WF_vars(Tick)
    /\ WF_vars(\E c \in Calls : Wake(c))
    /\ WF_vars(\E c \in Calls : ReadOut(c))

\* The operations that only ask the broker, and set_param, with their
\* arguments complete: MaxCalls calls, the connection stays up
ReadOnlyNames ==
    {"list_topics", "get_topic_info", "list_nodes", "get_node_info",
     "list_services", "get_service_info", "get_param", "list_params"}

ReadRequests ==
    {r \in Requests(ReadOnlyNames \cup {"set_param"}) : FirstMissing(r) = ""}

NextRead ==
    \/ \E c \in Calls : Arrive(c, ReadRequests, MaxCalls)
    \/ \E c \in Calls : HandleListTopics(c)
    \/ \E c \in Calls : HandleGetTopicInfo(c)
    \/ \E c \in Calls : HandleListNodes(c)
    \/ \E c \in Calls : HandleGetNodeInfo(c)
    \/ \E c \in Calls : HandleListServices(c)
    \/ \E c \in Calls : HandleGetServiceInfo(c)
    \/ \E c \in Calls : HandleGetParam(c)
    \/ \E c \in Calls : HandleSetParam(c)
    \/ \E c \in Calls : HandleListParams(c)
    \/ \E f \in responses : ReactorReceive(f)
    \/ \E e \in requests, fails \in BOOLEAN : BrokerServe(e, fails)

\* the broker may hold a value for the parameter from before
HeldParams == [ParamNames -> {Null, Str(<<"5">>)}]

InitRead == Fresh /\ conn = "up" /\ params \in HeldParams

SpecRead == InitRead /\ [][NextRead]_vars

\* subscribe_topic calls, with the receive thread and the read-out of lines
\* 252-255 in their own steps; the connection stays up
NextRace ==
    \/ \E c \in Calls : Arrive(c, SubRequests, SubCalls)
    \/ \E c \in Calls : HandleSubscribeTopic(c)
    \/ \E c \in Calls : Wake(c)
    \/ \E c \in Calls : CountMessages(c)
    \/ \E c \in Calls : ListMessages(c)
    \/ \E t \in Topics : ReceivePublish(t, MaxMsgs)
    \/ \E d \in dispatch : MessageCallback(d)
    \/ Tick

SpecRace == Init /\ [][NextRace]_vars

\* main from its start: the connection is still to be made, then
\* list_topics calls
StartRequests == Requests({"list_topics"})

NextStart ==
    \/ AttemptFails
    \/ StartTick
    \/ Connected
    \/ RunFails
    \/ \E c \in Calls : Arrive(c, StartRequests, FullCalls)
    \/ \E c \in Calls : HandleListTopics(c)
    \/ \E f \in responses : ReactorReceive(f)
    \/ \E e \in requests, fails \in BOOLEAN : BrokerServe(e, fails)

\* main is about to run: line 261 is still to connect
InitStart == Fresh /\ conn = "connecting" /\ params = NoParams

\* time passes and the exception of ros.run() ends main
FairStart ==
    /\ InitStart
    /\ [][NextStart]_vars
    /\ WF_vars(StartTick)
    /\ WF_vars(RunFails)

\* ------------------------------------------------------------------ claims
Done(c) == pc[c] = "done"
EnvelopesOf(c) == {i \in 1..Len(sent) : sent[i].by = c}

\* C1: every call of one of the twelve operations that has returned,
\* whatever its arguments and whatever was raised while it ran (a missing
\* argument, a failure reported by the broker), returned one text: the
\* operation's success text, or an error text that carries the operation's
\* name and a cause; no exception left the handler, and a call that has not
\* returned has no result.
C1_UniformResult ==
    \A c \in Calls :
        /\ ~Done(c) => result[c] = NoResult
        /\ Done(c) /\ req[c].name \in ToolNames =>
              /\ result[c].shape \in {"success", "error"}
              /\ result[c].op = req[c].name
              /\ result[c].shape = "error" => result[c].detail # <<>>
              /\ FirstMissing(req[c]) # "" =>
                    /\ result[c].shape = "error"
                    /\ result[c].detail = KeyError(FirstMissing(req[c]))

\* a failure reported by the broker came back as an error text naming
\* call_service
C1_Witness ==
    \E c \in Calls :
        /\ Done(c) /\ result[c].shape = "error"
        /\ result[c].op = "call_service"
        /\ result[c].detail = <<"Service", "/no_srv", "does not exist">>

\* C2: a call of an operation with required arguments that misses one of
\* them ends in an error result, and at no moment has an envelope been
\* handed to the connection, a callback registered or a roslibpy id drawn on
\* its behalf.
C2_MissingBeforeNetwork ==
    \A c \in Calls :
        req[c].name \in ToolNames /\ FirstMissing(req[c]) # "" =>
            /\ EnvelopesOf(c) = {}
            /\ \A l \in listeners : l.cb # c
            /\ rid[c] = 0
            /\ pc[c] \in {"ready", "done"}
            /\ Done(c) => result[c].shape = "error"

\* publish_message without its message_data has failed on it
C2_Witness ==
    \E c \in Calls :
        /\ Done(c) /\ req[c].name = "publish_message"
        /\ DOMAIN req[c].arguments = {"topic_name", "message_type"}
        /\ result[c] = ExceptHandler("publish_message", KeyError("message_data"))

\* C8: the step in which publish_message runs takes it from its start to its
\* success result: the publish envelope is the last thing handed to the
\* connection, and the step receives no frame from the broker.
C8_PublishFireAndForget ==
    [][\A c \in Calls :
          ( /\ req[c].name = "publish_message"
            /\ FirstMissing(req[c]) = ""
            /\ pc[c] = "ready"
            /\ pc'[c] # "ready" ) =>
          ( /\ pc'[c] = "done"
            /\ result'[c].shape = "success"
            /\ responses' = responses
            /\ Len(sent') = Len(sent) + 2
            /\ sent'[Len(sent')].op = "publish"
            /\ sent'[Len(sent')].by = c )]_vars

\* publish_message has returned its success while the socket is down and the
\* broker was never asked anything it could answer
C8_Witness ==
    \E c \in Calls :
        /\ Done(c) /\ req[c].name = "publish_message"
        /\ result[c].shape = "success"
        /\ conn = "down"
        /\ \A i \in 1..Len(sent) : sent[i].op \in {"advertise", "publish"}

\* C9: get_topic_info on a topic that does not exist on the broker returns
\* an error result, not a success-shaped result with an empty type.
C9_GhostTopicIsError ==
    \A c \in Calls :
        ( /\ Done(c) /\ req[c].name = "get_topic_info"
          /\ FirstMissing(req[c]) = ""
          /\ TopicOf(req[c]) \notin Topics ) =>
        result[c].shape = "error"

LostPending(c) ==
    /\ pc[c] = "blocked"
    /\ conn = "down"
    /\ \A i \in 1..Len(outbox) : outbox[i].id # rid[c]

\* C4: a call pending when the connection is lost eventually completes with
\* an error result.
C4_LostCallsFail ==
    \A c \in Calls : LostPending(c) ~> (Done(c) /\ result[c].shape = "error")

\* C7: a set_param(x, v) that returned success, then a get_param(x) that
\* returned success, with no set_param on x returning in between: the
\* get_param result shows v.
C7_RoundTrip ==
    \A i, j \in 1..Len(finished) :
        LET s == finished[i]
            g == finished[j]
        IN  ( /\ i < j
              /\ req[s].name = "set_param" /\ result[s].shape = "success"
              /\ req[g].name = "get_param" /\ result[g].shape = "success"
              /\ Arg(g, "param_name") = Arg(s, "param_name")
              /\ \A k \in (i + 1)..(j - 1) :
                    ~ ( /\ req[finished[k]].name = "set_param"
                        /\ Arg(finished[k], "param_name") = Arg(s, "param_name") ) )
            => result[g].detail = Render(Arg(s, "param_value"))

\* the value "5" in quotes, a string that needs escaping on its way, came
\* back as it was set
C7_Witness ==
    \E s, g \in Calls :
        /\ Len(finished) >= 2 /\ finished[1] = s /\ finished[2] = g
        /\ req[s].name = "set_param" /\ result[s].shape = "success"
        /\ Arg(s, "param_value") = Str(<<Q, "5", Q>>)
        /\ req[g].name = "get_param" /\ result[g].shape = "success"
        /\ result[g].detail = <<Q, "5", Q>>

Windowed(c) ==
    /\ req[c].name = "subscribe_topic"
    /\ FirstMissing(req[c]) = ""
    /\ Window(req[c]) >= 0

\* C6: a subscribe_topic call with timeout T on a topic that receives no
\* message in its window is not past its sleep before T seconds have
\* elapsed, does complete, and returns the success-shaped text saying that
\* no messages were received.
C6_EmptyWindow ==
    /\ [](\A c \in Calls :
            Windowed(c) =>
                /\ pc[c] \in {"readout", "done"} => elapsed[c] >= Window(req[c])
                /\ Done(c) /\ heard[c] = <<>> =>
                      result[c] = Text("success", "subscribe_topic",
                                       <<TopicOf(req[c])>>, NoMessages, 0, <<>>))
    /\ \A c \in Calls : (pc[c] = "sleeping") ~> Done(c)

\* a call without a timeout argument returned "no messages" after the
\* default 5 seconds
C6_Witness ==
    \E c \in Calls :
        /\ Done(c) /\ Windowed(c)
        /\ "timeout" \notin DOMAIN req[c].arguments
        /\ heard[c] = <<>>
        /\ elapsed[c] = 5
        /\ result[c].detail = NoMessages

\* C10: while a subscribe_topic window is open (its timeout has not elapsed)
\* its callback stays registered and has collected every message of its
\* topic that reached the client since the window opened, whatever other
\* subscribe_topic calls on the topic do.
C10_IndependentWindows ==
    \A c \in Calls :
        pc[c] = "sleeping" /\ elapsed[c] < Window(req[c]) =>
            /\ Listener(c) \in listeners
            /\ messages[c] = heard[c]

\* C11: the step in which a call_service call comes back from a request the
\* broker reported as failed ends the call with an error result that names
\* call_service and carries the failure the broker reported, and leaves the
\* event loop free for the calls that follow.
C11_ServiceFailureIsError ==
    [][\A c \in Calls :
          \A f \in responses :
              ( /\ req[c].name = "call_service"
                /\ pc[c] = "blocked" /\ pc'[c] # "blocked"
                /\ f.id = rid[c] /\ ~f.ok ) =>
              ( /\ pc'[c] = "done"
                /\ result'[c] = Text("error", "call_service", <<>>, f.data, 0, <<>>)
                /\ \A d \in Calls : pc'[d] \notin {"blocked", "readout"} )]_vars

\* the first call named a service the broker does not have and ended in the
\* error; the call after it was served
C11_Witness ==
    /\ Len(finished) >= 2 /\ finished[1] = 1 /\ finished[2] = 2
    /\ req[1].name = "call_service"
    /\ result[1] = Text("error", "call_service", <<>>,
                        <<"Service", "/no_srv", "does not exist">>, 0, <<>>)
    /\ req[2].name = "call_service" /\ result[2].shape = "success"

\* the number of times id occurs in a log of ids
Times(log, id) == Cardinality({i \in 1..Len(log) : log[i] = id})

\* a blocking call whose request the broker had taken and whose request or
\* response is gone: nothing of it is left with the broker or on the socket
Dropped(c) ==
    /\ pc[c] = "blocked"
    /\ Times(arrived, rid[c]) > 0
    /\ \A e \in requests : e.id # rid[c]
    /\ \A f \in responses : f.id # rid[c]

\* C12: of each call_service, set_param or get_param call at most one request
\* envelope is handed to the connection, the broker takes it off the socket
\* at most once and executes it at most once, whatever losses and reconnects
\* happen; and a call whose request or response went down with the
\* connection does not come back with a success afterwards.
C12_AtMostOnce ==
    /\ [](\A c \in Calls :
            rid[c] # 0 =>
                /\ Cardinality({i \in EnvelopesOf(c) : sent[i].op = "call_service"}) <= 1
                /\ Times(arrived, rid[c]) <= 1
                /\ Times(served, rid[c]) <= 1)
    /\ [][\A c \in Calls :
            Dropped(c) => /\ result'[c].shape # "success"
                          /\ arrived' = arrived]_vars

\* a call_service call was in flight when the connection was lost; the
\* connection is back and the broker holds nothing of the call: its request
\* reached the broker once and was not written again
C12_Witness ==
    \E c \in Calls :
        /\ req[c].name = "call_service" /\ Dropped(c)
        /\ conn = "up" /\ losses > 0
        /\ Times(arrived, rid[c]) = 1
        /\ requests = {}

\* C13: a subscribe_topic call never hands over an unsubscribe before its
\* subscribe, and once the call has ended, by its result or by cancellation,
\* its subscribe is followed by its unsubscribe and its callback is no
\* longer registered on the connection.
C13_SubscriptionsTornDown ==
    \A c \in Calls :
        req[c].name = "subscribe_topic" =>
            /\ \A i \in EnvelopesOf(c) :
                  sent[i].op = "unsubscribe" =>
                      \E j \in EnvelopesOf(c) : j < i /\ sent[j].op = "subscribe"
            /\ pc[c] \in {"done", "cancelled"} =>
                  /\ \A i \in EnvelopesOf(c) :
                        sent[i].op = "subscribe" =>
                            \E j \in EnvelopesOf(c) :
                                j > i /\ sent[j].op = "unsubscribe"
                  /\ \A l \in listeners : l.cb # c

\* the handler of a service or parameter call taking its first step
Start(c) == HandleCallService(c) \/ HandleGetParam(c) \/ HandleSetParam(c)

\* C14: a call that has been handed to handle_call_tool can start running
\* also while another call is suspended waiting for the broker's response:
\* its first step is possible in every state in which it has not yet run.
C14_OthersProgress ==
    \A c \in Calls : pc[c] = "ready" => ENABLED Start(c)

\* C15: the loss of the connection ends every subscribe_topic window that is
\* open at that moment: no call is still inside its sleep after the step
\* in which the connection went down, and the messages of the call are from
\* then on the ones it will return.
C15_FinalizedAtLoss ==
    [][\A c \in Calls :
          (conn = "up" /\ conn' = "down" /\ pc[c] = "sleeping") =>
              pc'[c] # "sleeping"]_vars

C17_UnknownIsError ==
    \A c \in Calls :
        Done(c) /\ req[c].name \notin ToolNames =>
            /\ result[c].shape = "error"
            /\ result[c].op = req[c].name
            /\ EnvelopesOf(c) = {}

\* C18: the count and the list of a subscribe_topic result are of one
\* snapshot of the collected messages: in every result that lists messages
\* the number listed is min(count, 5), and the listed ones are the last of
\* the first `count` messages collected.
C18_OneSnapshot ==
    \A c \in Calls :
        ( /\ Done(c) /\ req[c].name = "subscribe_topic"
          /\ result[c].shape = "success" /\ result[c].count > 0 ) =>
        LET n == result[c].count
            k == IF n < LastN THEN n ELSE LastN
        IN  /\ Len(result[c].msgs) = k
            /\ n <= Len(messages[c])
            /\ \A i \in 1..k : result[c].msgs[i] = messages[c][n - k + i]

\* a call of one of the read-only operations
ReadOnly(c) == req[c].name \in ReadOnlyNames

\* C19: no envelope handed over for a read-only call is a publish, an
\* advertise, a subscribe or an unsubscribe, a set_param request or a call
\* of a service of the robot; the broker's parameters change only in a step
\* that serves the request of a set_param call; and as long as no set_param
\* was called, a get_param that returned a value returned the value the
\* broker holds, however many read-only calls ran before it.
C19_ReadOnly ==
    /\ [](/\ \A i \in 1..Len(sent) :
                ReadOnly(sent[i].by) =>
                    /\ sent[i].op = "call_service"
                    /\ sent[i].target \notin Services \cup {"/rosapi/set_param"}
          /\ \A g \in Calls :
                ( /\ Done(g) /\ req[g].name = "get_param"
                  /\ result[g].shape = "success"
                  /\ \A c \in Calls : req[c].name # "set_param" ) =>
                result[g].detail = Render(params[Render(Arg(g, "param_name"))[1]]))
    /\ [][params' # params =>
            \E e \in requests :
                e \notin requests' /\ req[e.by].name = "set_param"]_vars

\* a read-only call ran first, then get_param returned the value the broker
\* held from the start
C19_Witness ==
    /\ Len(finished) >= 2
    /\ ReadOnly(finished[1]) /\ req[finished[1]].name # "get_param"
    /\ result[finished[1]].shape = "success"
    /\ req[finished[2]].name = "get_param"
    /\ result[finished[2]].shape = "success"
    /\ result[finished[2]].detail = <<"5">>

====
